---- MODULE Spec2Model ----
(***************************************************************************)
(* A model of the line-delimited JSON RPC server of async_app/server.py    *)
(* (RpcServerProtocol, the FUNCTIONS registry) and of its client           *)
(* (async_app/client.py, RpcClientProtocol / run_rpc_client), together     *)
(* with the parts of asyncio they rest on: the socket transport (write,    *)
(* close, the write buffer), the event loop's ready queue and the default  *)
(* thread pool behind asyncio.to_thread.                                   *)
(*                                                                         *)
(* Bytes on the wire are short strings.  "\n" is the frame delimiter, " "  *)
(* stands for any whitespace byte ("\r", " ", "\t"), "C3" and "A9" are the *)
(* two bytes of the UTF-8 encoding of "é", and every other byte symbol is  *)
(* a run of ASCII bytes of a JSON text (see json_loads).                   *)
(***************************************************************************)
EXTENDS Integers, Sequences, FiniteSets, TLC

\* ------------------------------------------------------------------ bounds
\* Number of connections the listener accepts.
NumConns == 2

\* asyncio.to_thread runs the call on the loop's default ThreadPoolExecutor,
\* whose max_workers is min(32, cpu_count + 4): five on a one-CPU machine.
CpuCount == 1

\* The calls of register() in a run that registers by hand.
MaxRegistrations == 3

Min(a, b) == IF a < b THEN a ELSE b

MaxWorkers == Min(32, CpuCount + 4)

\* ------------------------------------------------------------ sequences
RECURSIVE IndexOf(_, _, _)
\* The least index >= i at which x occurs in s, or 0.
IndexOf(s, x, i) ==
    IF i > Len(s) THEN 0
    ELSE IF s[i] = x THEN i
    ELSE IndexOf(s, x, i + 1)

Contains(s, x) == IndexOf(s, x, 1) # 0

Range(s) == {s[k] : k \in 1..Len(s)}

\* A non-empty prefix of s: what one recv() returns of the bytes in flight.
Prefixes(s) == {SubSeq(s, 1, n) : n \in 1..Len(s)}

Drop(s, n) == SubSeq(s, n + 1, Len(s))

\* ------------------------------------------------------- bytes and text
NL == "\n"

WS == " "

\* bytes.decode(): UTF-8.  "C3" "A9" decode to the one character "é"; a
\* "C3" that is not followed by "A9" (also: at the end of the chunk) and a
\* lone "A9" raise UnicodeDecodeError.
RECURSIVE DecodeFrom(_, _)
DecodeFrom(data, i) ==
    IF i > Len(data) THEN [ok |-> TRUE, text |-> <<>>]
    ELSE IF data[i] = "C3"
         THEN IF i < Len(data) /\ data[i + 1] = "A9"
              THEN LET rest == DecodeFrom(data, i + 2)
                   IN  IF rest.ok
                       THEN [ok |-> TRUE, text |-> <<"é">> \o rest.text]
                       ELSE rest
              ELSE [ok |-> FALSE, text |-> <<>>]
    ELSE IF data[i] = "A9" THEN [ok |-> FALSE, text |-> <<>>]
    ELSE LET rest == DecodeFrom(data, i + 1)
         IN  IF rest.ok
             THEN [ok |-> TRUE, text |-> <<data[i]>> \o rest.text]
             ELSE rest

decode(data) == DecodeFrom(data, 1)

\* str.strip(): drops the whitespace at both ends.
RECURSIVE lstrip(_)
lstrip(s) == IF s # <<>> /\ Head(s) = WS THEN lstrip(Tail(s)) ELSE s

RECURSIVE rstrip(_)
rstrip(s) ==
    IF s # <<>> /\ s[Len(s)] = WS THEN rstrip(SubSeq(s, 1, Len(s) - 1)) ELSE s

strip(s) == rstrip(lstrip(s))

\* str.split("\n", 1) of a string that contains "\n".
split(s) ==
    LET k == IndexOf(s, NL, 1)
    IN  <<SubSeq(s, 1, k - 1), Drop(s, k)>>

\* ------------------------------------------------------------ JSON values
\* A JSON value is a record with one field that names its type:
\* [int |-> n], [str |-> <<chars>>], [null |-> TRUE], [arr |-> <<values>>],
\* [obj |-> dict]; a dict is a function from key strings to values.
JInt(n) == [int |-> n]

JStr(s) == [str |-> s]

JNull == [null |-> TRUE]

JArr(a) == [arr |-> a]

JObj(d) == [obj |-> d]

IsInt(v) == DOMAIN v = {"int"}

IsStr(v) == DOMAIN v = {"str"}

IsArr(v) == DOMAIN v = {"arr"}

IsObj(v) == DOMAIN v = {"obj"}

RECURSIVE Join(_)
\* "".join(chars)
Join(chars) == IF chars = <<>> THEN "" ELSE Head(chars) \o Join(Tail(chars))

\* The ASCII runs of the request texts of the model.
ReqAdd == "{\"func_name\": \"add\", \"args\": [2, 3]}"

ReqAddKw == "{\"func_name\": \"add\", \"args\": [2], \"kwargs\": {\"b\": 3}}"

ReqUpper == "{\"func_name\": \"upper\", \"args\": [\"hi\"]}"

ReqSleep == "{\"func_name\": \"sleep\", \"args\": [5]}"

ReqAddArity == "{\"func_name\": \"add\", \"args\": [2]}"

ReqUpperInt == "{\"func_name\": \"upper\", \"args\": [5]}"

ReqArgsInt == "{\"func_name\": \"add\", \"args\": 5}"

ReqUnknown == "{\"func_name\": \"nope\"}"

ReqNoName == "{\"args\": [1]}"

ReqArray == "[1, 2]"

ReqGarbage == "{oops"

\* The two ends of {"func_name": "upper", "args": ["..."]}; the characters of
\* the string argument travel between them.
UpperOpen == "{\"func_name\": \"upper\", \"args\": [\""

UpperClose == "\"]}"

\* Characters that may stand unescaped inside a JSON string.
StringChars == {"é", WS}

Call(name, args) == JObj([func_name |-> JStr(name), args |-> JArr(args)])

\* The JSON texts that are one ASCII run, with the value each denotes.
JsonTexts ==
    (ReqAdd :> Call(<<"a", "d", "d">>, <<JInt(2), JInt(3)>>))
    @@ (ReqAddKw :> JObj([func_name |-> JStr(<<"a", "d", "d">>),
                          args |-> JArr(<<JInt(2)>>),
                          kwargs |-> JObj([b |-> JInt(3)])]))
    @@ (ReqUpper :> Call(<<"u", "p", "p", "e", "r">>, <<JStr(<<"h", "i">>)>>))
    @@ (ReqSleep :> Call(<<"s", "l", "e", "e", "p">>, <<JInt(5)>>))
    @@ (ReqAddArity :> Call(<<"a", "d", "d">>, <<JInt(2)>>))
    @@ (ReqUpperInt :> Call(<<"u", "p", "p", "e", "r">>, <<JInt(5)>>))
    @@ (ReqArgsInt :> JObj([func_name |-> JStr(<<"a", "d", "d">>), args |-> JInt(5)]))
    @@ (ReqUnknown :> JObj([func_name |-> JStr(<<"n", "o", "p", "e">>)]))
    @@ (ReqNoName :> JObj([args |-> JArr(<<JInt(1)>>)]))
    @@ (ReqArray :> JArr(<<JInt(1), JInt(2)>>))

\* json.loads(line) of a stripped line: the value, or JSONDecodeError.  A
\* line is a JSON text when it is one of JsonTexts, or UpperOpen, string
\* characters, UpperClose; two texts in one line ("Extra data"), a text cut
\* short and anything else do not parse.
json_loads(line) ==
    IF Len(line) = 1 /\ line[1] \in DOMAIN JsonTexts
    THEN [ok |-> TRUE, value |-> JsonTexts[line[1]]]
    ELSE IF /\ Len(line) >= 2
            /\ line[1] = UpperOpen
            /\ line[Len(line)] = UpperClose
            /\ \A k \in 2..(Len(line) - 1) : line[k] \in StringChars
    THEN [ok |-> TRUE,
          value |-> Call(<<"u", "p", "p", "e", "r">>,
                         <<JStr(SubSeq(line, 2, Len(line) - 1))>>)]
    ELSE [ok |-> FALSE, exc |-> "JSONDecodeError"]

\* dict.get(key, default)
Get(d, key, default) == IF key \in DOMAIN d THEN d[key] ELSE default

\* ------------------------------------------------ the registered functions
\* What a call does: it returns a value or raises an exception.
Return(v) == [kind |-> "return", value |-> v]

Raise(e) == [kind |-> "raise", exc |-> e]

\* str.upper(), character by character.
UpperChar(ch) ==
    CASE ch = "h" -> "H"
      [] ch = "i" -> "I"
      [] ch = "é" -> "É"
      [] OTHER -> ch

\* def add(a, b): return a + b
add(a, b) ==
    IF IsInt(a) /\ IsInt(b) THEN Return(JInt(a.int + b.int))
    ELSE IF IsStr(a) /\ IsStr(b) THEN Return(JStr(a.str \o b.str))
    ELSE IF IsArr(a) /\ IsArr(b) THEN Return(JArr(a.arr \o b.arr))
    ELSE Raise("TypeError")

\* def upper(s): return s.upper()
upper(s) ==
    IF IsStr(s) THEN Return(JStr([k \in 1..Len(s.str) |-> UpperChar(s.str[k])]))
    ELSE Raise("AttributeError")

\* def sleep(t): time.sleep(t)
sleep(t) ==
    IF ~IsInt(t) THEN Raise("TypeError")
    ELSE IF t.int < 0 THEN Raise("ValueError")
    ELSE Return(JNull)

\* The parameter names of each function.
Params(fn) ==
    CASE fn = "add" -> <<"a", "b">>
      [] fn = "upper" -> <<"s">>
      [] fn = "sleep" -> <<"t">>

\* fn(*args, **kwargs): Python binds the positional arguments to the first
\* parameters and the keyword arguments by name, and raises TypeError on
\* too many arguments, an unknown or twice-given name, or a missing one.
Invoke(fn, args, kwargs) ==
    LET ps == Params(fn)
        named(k) == ps[k] \in DOMAIN kwargs
        arg(k) == IF k <= Len(args) THEN args[k] ELSE kwargs[ps[k]]
    IN  IF \/ Len(args) > Len(ps)
           \/ \E key \in DOMAIN kwargs : ~Contains(ps, key)
           \/ \E k \in 1..Len(ps) : (k <= Len(args)) = named(k)
        THEN Raise("TypeError")
        ELSE CASE fn = "add" -> add(arg(1), arg(2))
               [] fn = "upper" -> upper(arg(1))
               [] fn = "sleep" -> sleep(arg(1))

\* None of add, upper, sleep is declared "async def".
iscoroutinefunction(fn) == FALSE

\* "except ValueError" in place of "except Exception": what the handlers
\* would catch if they named the parser's exceptions only.
IsExceptionValueError(e) == e \in {"ValueError", "JSONDecodeError"}

\* "except Exception" catches every exception the functions and the parser
\* can raise; it would not catch a BaseException such as CancelledError.
IsException(e) ==
    e \in {"TypeError", "AttributeError", "ValueError", "JSONDecodeError"}

\* "FUNCTIONS.setdefault(name, fn)" in place of "FUNCTIONS[name] = fn": a
\* registry in which the first registration of a name stays.
registerKeepFirst(F, name, fn) ==
    [k \in DOMAIN F \cup {name} |-> IF k \in DOMAIN F THEN F[k] ELSE fn]

\* FUNCTIONS[name] = fn
register(F, name, fn) ==
    [k \in DOMAIN F \cup {name} |-> IF k = name THEN fn ELSE F[k]]

\* The @register(name) decorators of the module, in the order they run.
Decorated == <<<<"add", "add">>, <<"upper", "upper">>, <<"sleep", "sleep">>>>

\* The static-file responder when no HTTP connection is part of the run.
NoHttp == [pc |-> "none"]

\* The registry once the module is imported: the three decorated functions.
Registered ==
    register(register(register(<<>>, "add", "add"), "upper", "upper"),
             "sleep", "sleep")

\* ---------------------------------------------------------------- responses
\* json.dumps escapes every non-ASCII character (ensure_ascii).
EscapeChar(ch) ==
    CASE ch = "é" -> "\\u00e9"
      [] ch = "É" -> "\\u00c9"
      [] OTHER -> ch

RECURSIVE JsonText(_)
\* json.dumps of a value.
JsonText(v) ==
    CASE IsInt(v) -> ToString(v.int)
      [] IsStr(v) -> "\"" \o Join([k \in 1..Len(v.str) |-> EscapeChar(v.str[k])]) \o "\""
      [] IsArr(v) ->
            "[" \o Join([k \in 1..Len(v.arr) |->
                            (IF k = 1 THEN "" ELSE ", ") \o JsonText(v.arr[k])]) \o "]"
      [] OTHER -> "null"

\* json.dumps(response): one ASCII run without "\n".
json_dumps(response) ==
    IF "result" \in DOMAIN response /\ "error" \in DOMAIN response
    THEN "{\"result\": " \o JsonText(response.result)
         \o ", \"error\": \"" \o response.error \o "\"}"
    ELSE IF "result" \in DOMAIN response
    THEN "{\"result\": " \o JsonText(response.result) \o "}"
    ELSE IF "error" \in DOMAIN response
    THEN "{\"error\": \"" \o response.error \o "\"}"
    ELSE "{}"

\* repr() of a value, as the f-strings print it.
Repr(v) ==
    CASE IsStr(v) -> "'" \o Join(v.str) \o "'"
      [] IsInt(v) -> ToString(v.int)
      [] OTHER -> "None"

RECURSIVE SetToSeq(_)
SetToSeq(S) ==
    IF S = {} THEN <<>>
    ELSE LET x == CHOOSE y \in S : TRUE IN <<x>> \o SetToSeq(S \ {x})

\* f(*args): what Python unpacks from the value of "args", or TypeError.
Unpack(v) ==
    CASE IsArr(v) -> [ok |-> TRUE, args |-> v.arr]
      [] IsStr(v) -> [ok |-> TRUE, args |-> [k \in 1..Len(v.str) |-> JStr(<<v.str[k]>>)]]
      [] IsObj(v) -> [ok |-> TRUE,
                      args |-> LET ks == SetToSeq(DOMAIN v.obj)
                               IN  [k \in 1..Len(ks) |-> JStr(<<ks[k]>>)]]
      [] OTHER -> [ok |-> FALSE, args |-> <<>>]

\* ------------------------------------------------------ RpcServerProtocol
\* _execute_function if its except clause added "error" to a response that
\* already carried "result".
ExecuteResultBothKeys(outcome) ==
    IF outcome.kind = "return" THEN [kind |-> "response", response |-> [result |-> outcome.value]]
    ELSE IF IsException(outcome.exc)
    THEN [kind |-> "response",
          response |-> [result |-> JNull, error |-> outcome.exc \o "(...)"]]
    ELSE [kind |-> "raise", exc |-> outcome.exc]

\* _execute_function, once the call has returned or raised: the response, or
\* the exception that leaves the coroutine when "except Exception" does not
\* catch it.
ExecuteResult(outcome) ==
    IF outcome.kind = "return" THEN [kind |-> "response", response |-> [result |-> outcome.value]]
    ELSE IF IsException(outcome.exc)
    THEN [kind |-> "response", response |-> [error |-> outcome.exc \o "(...)"]]
    ELSE [kind |-> "raise", exc |-> outcome.exc]

\* The except clause of _handle_line if it answered with an empty result.
BadRequestAsResult(e) ==
    IF IsException(e)
    THEN [kind |-> "response", response |-> [result |-> JNull]]
    ELSE [kind |-> "raise", exc |-> e]

\* The "except Exception" of _handle_line.
BadRequest(e) ==
    IF IsException(e)
    THEN [kind |-> "response", response |-> [error |-> "bad request: " \o e \o "(...)"]]
    ELSE [kind |-> "raise", exc |-> e]

\* The unknown-function branch if it answered with an empty result.
UnknownFunctionAsResult(func_name) ==
    [kind |-> "response", response |-> [result |-> JNull]]

\* response = {"error": f"unknown function {func_name!r}"}
UnknownFunction(func_name) ==
    [kind |-> "response",
     response |-> [error |-> "unknown function " \o Repr(func_name)]]

\* _handle_line up to its first suspension: it ends with a response (kind
\* "response"), with an exception nothing catches (kind "raise"), or it
\* awaits the call of a registered function (kind "call").
HandleLine(F, line) ==
    LET parsed == json_loads(line)
    IN  IF ~parsed.ok THEN BadRequest(parsed.exc)
        ELSE IF ~IsObj(parsed.value) THEN BadRequest("AttributeError")
        ELSE
          LET request == parsed.value.obj
              func_name == Get(request, "func_name", JNull)
              args == Get(request, "args", JArr(<<>>))
              kwargs == Get(request, "kwargs", JObj(<<>>))
          IN  IF IsArr(func_name) \/ IsObj(func_name) THEN BadRequest("TypeError")
              ELSE IF ~(IsStr(func_name) /\ Join(func_name.str) \in DOMAIN F)
              THEN UnknownFunction(func_name)
              ELSE IF ~Unpack(args).ok \/ ~IsObj(kwargs) THEN BadRequest("TypeError")
              ELSE IF "func_name" \in DOMAIN kwargs.obj \/ "self" \in DOMAIN kwargs.obj
              THEN BadRequest("TypeError")
              ELSE [kind |-> "call", fn |-> F[Join(func_name.str)],
                    args |-> Unpack(args).args, kwargs |-> kwargs.obj]

RECURSIVE ExtractKeepEmpty(_)
\* The while loop of data_received without "if not line: continue".
ExtractKeepEmpty(buf) ==
    IF ~Contains(buf, NL) THEN [lines |-> <<>>, rest |-> buf]
    ELSE LET parts == split(buf)
             line == strip(parts[1])
             more == ExtractKeepEmpty(parts[2])
         IN  [lines |-> <<line>> \o more.lines, rest |-> more.rest]

RECURSIVE ExtractNewestFirst(_)
\* The while loop of data_received if it cut the last line first
\* (rsplit): the lines come out in reverse order.
ExtractNewestFirst(buf) ==
    IF ~Contains(buf, NL) THEN [lines |-> <<>>, rest |-> buf]
    ELSE LET parts == split(buf)
             line == strip(parts[1])
             more == ExtractNewestFirst(parts[2])
         IN  [lines |-> more.lines \o (IF line = <<>> THEN <<>> ELSE <<line>>),
              rest |-> more.rest]

\* "if" in place of "while" in data_received: one line is cut from the
\* buffer for each chunk, later lines stay in it with their "\n".
ExtractOneLine(buf) ==
    IF ~Contains(buf, NL) THEN [lines |-> <<>>, rest |-> buf]
    ELSE LET parts == split(buf)
             line == strip(parts[1])
         IN  [lines |-> (IF line = <<>> THEN <<>> ELSE <<line>>), rest |-> parts[2]]

RECURSIVE Extract(_)
\* The while loop of data_received: the stripped non-empty lines cut from the
\* buffer, in order, and what is left of the buffer.
Extract(buf) ==
    IF ~Contains(buf, NL) THEN [lines |-> <<>>, rest |-> buf]
    ELSE LET parts == split(buf)
             line == strip(parts[1])
             more == Extract(parts[2])
         IN  [lines |-> (IF line = <<>> THEN <<>> ELSE <<line>>) \o more.lines,
              rest |-> more.rest]

\* ------------------------------------------------------- socket transport
\* A selector socket transport: _closing, _conn_lost > 0, the bytes write()
\* could not hand to the socket yet, and the exception connection_lost is
\* called with ("" for None).
NewTransport == [closing |-> FALSE, connLost |-> FALSE, wbuf |-> <<>>, exc |-> ""]

\* transport.write(data): dropped once _conn_lost is set; with an empty write
\* buffer the socket takes the bytes at once or (its send buffer full) they
\* are buffered; with a non-empty write buffer they are appended to it.  The
\* outcomes, each with the bytes that reach the socket now.
TransportWrite(t, data) ==
    IF t.connLost THEN {[t |-> t, sent |-> <<>>]}
    ELSE IF t.wbuf = <<>>
    THEN {[t |-> t, sent |-> data], [t |-> [t EXCEPT !.wbuf = data], sent |-> <<>>]}
    ELSE {[t |-> [t EXCEPT !.wbuf = @ \o data], sent |-> <<>>]}

\* transport.close(): no effect when already closing; else no more reads, and
\* the connection is lost at once when nothing is left to flush.
TransportClose(t) ==
    IF t.closing THEN t
    ELSE [t EXCEPT !.closing = TRUE, !.connLost = (t.wbuf = <<>>)]

\* _write_ready: the socket takes the buffered bytes; a closing transport is
\* then lost.
TransportFlush(t) == [t EXCEPT !.wbuf = <<>>, !.connLost = t.closing]

\* _fatal_error(exc) / _force_close(exc): nothing when the connection is
\* lost already; else the buffered bytes are discarded.
TransportAbort(t, exc) ==
    IF t.connLost THEN t
    ELSE [closing |-> TRUE, connLost |-> TRUE, wbuf |-> <<>>, exc |-> exc]

\* ------------------------------------------------------------------ state
VARIABLES
    FUNCTIONS,  \* the registry: function name -> callable
    plan,       \* per connection: its peer, a raw socket that sends the bytes
                \* plan[c].bytes, or an RpcClientProtocol with plan[c].request
    peer,       \* per connection: the peer's socket, "idle" | "connected" | "closed"
    c2s,        \* per connection: bytes sent by the peer, not yet read by the server
    s2c,        \* per connection: the bytes the server's socket sent to the peer
    sconn,      \* per connection: the server's end, "none" | "open"
    stx,        \* per connection: the server's transport
    buffer,     \* per connection: RpcServerProtocol._buffer
    stream,     \* per connection: every byte data_received was called with (history)
    tasks,      \* per connection: the _handle_line tasks, in creation order
    ready,      \* the event loop's ready queue: task steps <<c, i>> to run, FIFO
    workq,      \* the thread pool's work queue: calls <<c, i>> no worker took yet
    running,    \* the calls <<c, i>> a worker thread is executing
    client,     \* per connection: the state of its RpcClientProtocol peer
    registrations,  \* the calls of register so far, <<name, fn>> each (history)
    http        \* the connection of the static-file responder

vars ==
    <<FUNCTIONS, plan, peer, c2s, s2c, sconn, stx, buffer, stream, tasks,
      ready, workq, running, client, registrations, http>>

\* The connections of the run.
Conns == DOMAIN plan

NoCall == [fn |-> "", args |-> <<>>, kwargs |-> <<>>]

NoOutcome == [kind |-> "none"]

\* asyncio.create_task(self._handle_line(line)): a task that has not run yet.
NewTask(line) ==
    [line |-> line, pc |-> "created", call |-> NoCall, outcome |-> NoOutcome,
     response |-> <<>>, calls |-> 0, wrote |-> 0]

\* RpcClientProtocol.__init__ and the start of run_rpc_client: the transport,
\* _buffer, how much of s2c was read, the responses decoded, the calls
\* of on_con_lost.set_result and the place of run_rpc_client.
NewClient ==
    [tx |-> NewTransport, buffer |-> <<>>, rpos |-> 0, seen |-> <<>>,
     writes |-> 0, nset |-> 0, pc |-> "init"]

Raw(bytes) == [kind |-> "raw", bytes |-> bytes]

Rpc(text) == [kind |-> "rpc", request |-> JsonTexts[text]]

\* The byte strings the raw peer of the first connection may send: one
\* request, blank lines and padding, two pipelined requests, each kind of bad
\* request, a request with a two-byte character, a frame that never ends.
Plans ==
    { Raw(<<ReqAdd, NL>>),
      Raw(<<WS, NL, ReqUpper, WS, NL>>),
      Raw(<<ReqAdd, NL, ReqSleep, NL>>),
      Raw(<<ReqUnknown, NL, ReqUpper, NL>>),
      Raw(<<ReqUnknown, NL>>),
      Raw(<<ReqNoName, NL>>),
      Raw(<<ReqArray, NL>>),
      Raw(<<ReqGarbage, NL>>),
      Raw(<<ReqArgsInt, NL>>),
      Raw(<<ReqAddArity, NL>>),
      Raw(<<ReqUpperInt, NL>>),
      Raw(<<ReqAddKw, NL>>),
      Raw(<<UpperOpen, "C3", "A9", UpperClose, NL>>),
      Raw(<<ReqSleep>>) }

\* The peers of the other connections run client.py: the requests of main().
ClientPlans == <<Rpc(ReqAdd), Rpc(ReqUpper), Rpc(ReqSleep)>>

TypeOK ==
    /\ DOMAIN FUNCTIONS \subseteq {"add", "upper", "sleep"}
    /\ \A c \in Conns :
        /\ peer[c] \in {"idle", "connected", "closed"}
        /\ sconn[c] \in {"none", "open"}
        /\ stx[c].closing \in BOOLEAN /\ stx[c].connLost \in BOOLEAN
        /\ client[c].pc \in {"init", "awaiting", "done"}
        /\ \A i \in 1..Len(tasks[c]) :
              tasks[c][i].pc \in {"created", "awaiting", "done", "failed"}

\* The connections when the listener starts serving, with the peers p.
InitConns(p) ==
    /\ plan = p
    /\ peer = [c \in DOMAIN p |-> "idle"]
    /\ c2s = [c \in DOMAIN p |-> <<>>]
    /\ s2c = [c \in DOMAIN p |-> <<>>]
    /\ sconn = [c \in DOMAIN p |-> "none"]
    /\ stx = [c \in DOMAIN p |-> NewTransport]
    /\ buffer = [c \in DOMAIN p |-> <<>>]
    /\ stream = [c \in DOMAIN p |-> <<>>]
    /\ tasks = [c \in DOMAIN p |-> <<>>]
    /\ ready = <<>>
    /\ workq = <<>>
    /\ running = {}
    /\ client = [c \in DOMAIN p |-> NewClient]

\* The state when the listener starts serving, with the peers p: the module
\* is imported, its decorators have run.
InitPeers(p) ==
    /\ InitConns(p)
    /\ FUNCTIONS = Registered
    /\ registrations = Decorated
    /\ http = NoHttp

\* Connection 1 has one of the peers P, the others one of Q; no code tells
\* one connection from another, so the others are numbered in the order of Q.
Init ==
    \E first \in Plans : \E idx \in [1..NumConns -> 1..Len(ClientPlans)] :
        /\ \A c \in 1..NumConns :
              IF c = NumConns THEN TRUE ELSE idx[c] <= idx[c + 1]
        /\ idx[1] = 1
        /\ InitPeers([c \in 1..NumConns |->
                         IF c = 1 THEN first ELSE ClientPlans[idx[c]]])

\* -------------------------------------------------------------- raw peers
\* Peers with the same plan are alike: they are numbered in the order in
\* which they connect.
InTurn(c) == \A d \in Conns : (d < c /\ plan[d] = plan[c]) => peer[d] # "idle"

\* A raw peer connects and sends its bytes (socket.sendall).
PeerConnect(c) ==
    /\ plan[c].kind = "raw"
    /\ peer[c] = "idle"
    /\ InTurn(c)
    /\ peer' = [peer EXCEPT ![c] = "connected"]
    /\ c2s' = [c2s EXCEPT ![c] = plan[c].bytes]
    /\ UNCHANGED <<http, registrations, FUNCTIONS, plan, s2c, sconn, stx, buffer, stream, tasks,
                   ready, workq, running, client>>

\* A raw peer closes its socket.
PeerClose(c) ==
    /\ plan[c].kind = "raw"
    /\ peer[c] = "connected"
    /\ peer' = [peer EXCEPT ![c] = "closed"]
    /\ UNCHANGED <<http, registrations, FUNCTIONS, plan, c2s, s2c, sconn, stx, buffer, stream, tasks,
                   ready, workq, running, client>>

\* The bytes the socket of one connection takes reach the peer of every
\* connection.
DeliverToAll(c, sent) ==
    s2c' = [d \in Conns |-> IF peer[d] = "closed" THEN s2c[d] ELSE s2c[d] \o sent]

\* The bytes the server's socket takes reach the peer, which observes them,
\* unless it has closed its socket.
Deliver(c, sent) ==
    s2c' = [s2c EXCEPT ![c] = IF peer[c] = "closed" THEN @ ELSE @ \o sent]

\* ----------------------------------------------------------------- server
\* The event loop runs every step that is ready before it polls the sockets
\* again (BaseEventLoop._run_once), so a callback for bytes, for the end of
\* the stream or for a writable socket never overtakes a task step that was
\* scheduled before the poll.
Polled == ready = <<>>

\* The listener accepts the connection: connection_made.
connection_made(c) ==
    /\ sconn[c] = "none"
    /\ peer[c] # "idle"
    /\ sconn' = [sconn EXCEPT ![c] = "open"]
    /\ UNCHANGED <<http, registrations, FUNCTIONS, plan, peer, c2s, s2c, stx, buffer, stream, tasks,
                   ready, workq, running, client>>

\* The transport reads some of the bytes that arrived and calls
\* data_received(data).  When data.decode() raises, the exception leaves
\* data_received and the transport aborts the connection (_fatal_error); the
\* bytes of the chunk are gone and _buffer is as before.
data_received(c) ==
    /\ sconn[c] = "open"
    /\ ~stx[c].closing
    /\ Polled
    /\ \E data \in Prefixes(c2s[c]) :
        /\ c2s' = [c2s EXCEPT ![c] = Drop(@, Len(data))]
        /\ stream' = [stream EXCEPT ![c] = @ \o data]
        /\ LET text == decode(data)
               cut == Extract(buffer[c] \o text.text)
               n == Len(tasks[c])
           IN  IF text.ok
               THEN /\ buffer' = [buffer EXCEPT ![c] = cut.rest]
                    /\ tasks' = [tasks EXCEPT ![c] =
                           @ \o [k \in 1..Len(cut.lines) |-> NewTask(cut.lines[k])]]
                    /\ ready' = ready \o [k \in 1..Len(cut.lines) |-> <<c, n + k>>]
                    /\ stx' = stx
               ELSE /\ stx' = [stx EXCEPT ![c] = TransportAbort(@, "UnicodeDecodeError")]
                    /\ UNCHANGED <<buffer, tasks, ready>>
    /\ UNCHANGED <<http, registrations, FUNCTIONS, plan, peer, s2c, sconn, workq, running, client>>

\* The peer has closed and every byte it sent was read: the base Protocol's
\* eof_received returns None, on which the transport closes itself.
eof_received(c) ==
    /\ sconn[c] = "open"
    /\ ~stx[c].closing
    /\ Polled
    /\ peer[c] = "closed"
    /\ c2s[c] = <<>>
    /\ stx' = [stx EXCEPT ![c] = TransportClose(@)]
    /\ UNCHANGED <<http, registrations, FUNCTIONS, plan, peer, c2s, s2c, sconn, buffer, stream,
                   tasks, ready, workq, running, client>>

\* The tail of _handle_line: json.dumps, transport.write, transport.close; or
\* the exception leaves the coroutine and the task ends without writing.
Respond(c, i, res) ==
    IF res.kind = "response"
    THEN \E o \in TransportWrite(stx[c], <<json_dumps(res.response), NL>>) :
            /\ stx' = [stx EXCEPT ![c] = TransportClose(o.t)]
            /\ Deliver(c, o.sent)
            /\ tasks' = [tasks EXCEPT ![c][i].pc = "done",
                                      ![c][i].response = res.response,
                                      ![c][i].wrote = @ + 1]
    ELSE /\ tasks' = [tasks EXCEPT ![c][i].pc = "failed"]
         /\ UNCHANGED <<stx, s2c>>

\* The event loop runs the next ready step of a task: the start of
\* _handle_line, or its resumption when the awaited call has finished.
RunTask ==
    /\ ready # <<>>
    /\ ready' = Tail(ready)
    /\ LET c == Head(ready)[1]
           i == Head(ready)[2]
           t == tasks[c][i]
           h == HandleLine(FUNCTIONS, t.line)
       IN  IF t.pc = "awaiting"
           THEN Respond(c, i, ExecuteResult(t.outcome)) /\ UNCHANGED workq
           ELSE IF h.kind # "call"
           THEN Respond(c, i, h) /\ UNCHANGED workq
           ELSE IF iscoroutinefunction(h.fn)
           THEN Respond(c, i, ExecuteResult(Invoke(h.fn, h.args, h.kwargs)))
                /\ UNCHANGED workq
           ELSE \* asyncio.to_thread: submit the call to the default executor
                /\ tasks' = [tasks EXCEPT ![c][i].pc = "awaiting",
                                          ![c][i].call =
                                              [fn |-> h.fn, args |-> h.args,
                                               kwargs |-> h.kwargs]]
                /\ workq' = Append(workq, <<c, i>>)
                /\ UNCHANGED <<stx, s2c>>
    /\ UNCHANGED <<http, registrations, FUNCTIONS, plan, peer, c2s, sconn, buffer, stream, running,
                   client>>

\* A free worker thread takes the oldest submitted call and starts it.
ThreadStart ==
    /\ workq # <<>>
    /\ Cardinality(running) < MaxWorkers
    /\ LET c == Head(workq)[1]
           i == Head(workq)[2]
       IN  tasks' = [tasks EXCEPT ![c][i].calls = @ + 1]
    /\ running' = running \cup {Head(workq)}
    /\ workq' = Tail(workq)
    /\ UNCHANGED <<http, registrations, FUNCTIONS, plan, peer, c2s, s2c, sconn, stx, buffer, stream,
                   ready, client>>

\* A dispatcher with a retry: a call that raises in its worker thread is
\* submitted once more before the awaiting task is told.
ThreadFinishRetry(c, i) ==
    /\ <<c, i>> \in running
    /\ running' = running \ {<<c, i>>}
    /\ LET outcome == Invoke(tasks[c][i].call.fn, tasks[c][i].call.args,
                             tasks[c][i].call.kwargs)
       IN  IF outcome.kind = "raise" /\ tasks[c][i].calls < 2
           THEN /\ workq' = Append(workq, <<c, i>>)
                /\ UNCHANGED <<tasks, ready>>
           ELSE /\ tasks' = [tasks EXCEPT ![c][i].outcome = outcome]
                /\ ready' = Append(ready, <<c, i>>)
                /\ workq' = workq
    /\ UNCHANGED <<http, registrations, FUNCTIONS, plan, peer, c2s, s2c, sconn, stx, buffer, stream,
                   client>>

\* A call returns or raises in its worker thread; call_soon_threadsafe makes
\* the awaiting task ready.
ThreadFinish(c, i) ==
    /\ <<c, i>> \in running
    /\ running' = running \ {<<c, i>>}
    /\ tasks' = [tasks EXCEPT ![c][i].outcome =
                    Invoke(tasks[c][i].call.fn, tasks[c][i].call.args,
                           tasks[c][i].call.kwargs)]
    /\ ready' = Append(ready, <<c, i>>)
    /\ UNCHANGED <<http, registrations, FUNCTIONS, plan, peer, c2s, s2c, sconn, stx, buffer, stream,
                   workq, client>>

\* _write_ready: the socket takes the bytes of the write buffer.  (Once
\* _conn_lost is set the transport calls the inherited, empty connection_lost
\* and closes the socket; the model keeps no separate state for that.)
write_ready(c) ==
    /\ sconn[c] = "open"
    /\ stx[c].wbuf # <<>>
    /\ Polled
    /\ Deliver(c, stx[c].wbuf)
    /\ stx' = [stx EXCEPT ![c] = TransportFlush(@)]
    /\ UNCHANGED <<http, registrations, FUNCTIONS, plan, peer, c2s, sconn, buffer, stream, tasks,
                   ready, workq, running, client>>

\* ------------------------------------------------------ RpcClientProtocol
\* Every response the server can build from the request texts of the model.
AllResponses ==
    LET texts == DOMAIN JsonTexts \cup {ReqGarbage}
        first == {HandleLine(Registered, <<t>>) : t \in texts}
        later == {ExecuteResult(Invoke(h.fn, h.args, h.kwargs)) :
                     h \in {g \in first : g.kind = "call"}}
    IN  {r.response : r \in {g \in first \cup later : g.kind = "response"}}

\* json.loads(line) in the client: the line is the text of a response, or
\* JSONDecodeError.
LoadsResponse(line) ==
    IF Len(line) = 1 /\ \E r \in AllResponses : json_dumps(r) = line[1]
    THEN [ok |-> TRUE,
          value |-> CHOOSE r \in AllResponses : json_dumps(r) = line[1]]
    ELSE [ok |-> FALSE, exc |-> "JSONDecodeError"]

\* json.dumps(self.request) in the client: the text of the request.
DumpsRequest(request) == CHOOSE t \in DOMAIN JsonTexts : JsonTexts[t] = request

RECURSIVE ClientLoopKeepOpen(_, _)
\* The while loop of RpcClientProtocol.data_received without
\* "self.transport.close()".
ClientLoopKeepOpen(cl, buf) ==
    IF ~Contains(buf, NL) THEN [cl EXCEPT !.buffer = buf]
    ELSE LET parts == split(buf)
             line == strip(parts[1])
             response == LoadsResponse(line)
         IN  IF line = <<>> THEN ClientLoopKeepOpen(cl, parts[2])
             ELSE IF ~response.ok
             THEN [cl EXCEPT !.buffer = parts[2],
                              !.tx = TransportAbort(@, "JSONDecodeError")]
             ELSE ClientLoopKeepOpen([cl EXCEPT !.seen = Append(@, response.value)],
                                     parts[2])

RECURSIVE ClientLoop(_, _)
\* The while loop of RpcClientProtocol.data_received on the client state cl
\* whose _buffer is buf: every non-empty line is decoded and the transport is
\* closed; a line that is no JSON raises out of data_received, on which the
\* transport aborts the connection.
ClientLoop(cl, buf) ==
    IF ~Contains(buf, NL) THEN [cl EXCEPT !.buffer = buf]
    ELSE LET parts == split(buf)
             line == strip(parts[1])
             response == LoadsResponse(line)
         IN  IF line = <<>> THEN ClientLoop(cl, parts[2])
             ELSE IF ~response.ok
             THEN [cl EXCEPT !.buffer = parts[2],
                              !.tx = TransportAbort(@, "JSONDecodeError")]
             ELSE ClientLoop([cl EXCEPT !.seen = Append(@, response.value),
                                        !.tx = TransportClose(@)],
                             parts[2])

\* run_rpc_client up to "await on_con_lost": create_connection, then
\* connection_made writes the one request frame.
ClientConnect(c) ==
    /\ plan[c].kind = "rpc"
    /\ peer[c] = "idle"
    /\ InTurn(c)
    /\ peer' = [peer EXCEPT ![c] = "connected"]
    /\ \E o \in TransportWrite(client[c].tx, <<DumpsRequest(plan[c].request), NL>>) :
        /\ client' = [client EXCEPT ![c].tx = o.t, ![c].writes = @ + 1,
                                    ![c].pc = "awaiting"]
        /\ c2s' = [c2s EXCEPT ![c] = @ \o o.sent]
    /\ UNCHANGED <<http, registrations, FUNCTIONS, plan, s2c, sconn, stx, buffer, stream, tasks,
                   ready, workq, running>>

\* The client's _write_ready.
client_write_ready(c) ==
    /\ peer[c] = "connected"
    /\ client[c].tx.wbuf # <<>>
    /\ c2s' = [c2s EXCEPT ![c] = @ \o client[c].tx.wbuf]
    /\ client' = [client EXCEPT ![c].tx = TransportFlush(@)]
    /\ UNCHANGED <<http, registrations, FUNCTIONS, plan, peer, s2c, sconn, stx, buffer, stream, tasks,
                   ready, workq, running>>

\* RpcClientProtocol.data_received with some of the bytes that arrived.  (The
\* server writes a whole response line before it closes, so the client has
\* closed its transport by the time the end of the stream could reach it:
\* the inherited eof_received never runs.)
client_data_received(c) ==
    /\ plan[c].kind = "rpc"
    /\ peer[c] = "connected"
    /\ ~client[c].tx.closing
    /\ \E n \in (client[c].rpos + 1)..Len(s2c[c]) :
        LET text == decode(SubSeq(s2c[c], client[c].rpos + 1, n))
            cl == [client[c] EXCEPT !.rpos = n]
        IN  client' = [client EXCEPT ![c] =
                IF text.ok THEN ClientLoop(cl, cl.buffer \o text.text)
                ELSE [cl EXCEPT !.tx = TransportAbort(@, "UnicodeDecodeError")]]
    /\ UNCHANGED <<http, registrations, FUNCTIONS, plan, peer, c2s, s2c, sconn, stx, buffer, stream,
                   tasks, ready, workq, running>>

\* RpcClientProtocol.connection_lost: on_con_lost.set_result(True); the
\* transport closes the socket.
client_connection_lost(c) ==
    /\ plan[c].kind = "rpc"
    /\ peer[c] = "connected"
    /\ client[c].tx.connLost
    /\ peer' = [peer EXCEPT ![c] = "closed"]
    /\ client' = [client EXCEPT ![c].nset = @ + 1]
    /\ UNCHANGED <<http, registrations, FUNCTIONS, plan, c2s, s2c, sconn, stx, buffer, stream, tasks,
                   ready, workq, running>>

\* run_rpc_client after "await on_con_lost": finally transport.close(), return.
run_rpc_client_return(c) ==
    /\ client[c].pc = "awaiting"
    /\ client[c].nset > 0
    /\ client' = [client EXCEPT ![c].pc = "done", ![c].tx = TransportClose(@)]
    /\ UNCHANGED <<http, registrations, FUNCTIONS, plan, peer, c2s, s2c, sconn, stx, buffer, stream,
                   tasks, ready, workq, running>>

\* ------------------------------------------------ the static-file responder
\* TestHTTPHandler (src/server.py, served by TestTCPServer) and
\* HttpServerProtocol (src/async_app/server.py).  An HTTP request is a
\* sequence of symbols: CRLF, SP and tokens without either (a method, a path,
\* "HTTP/1.1", a header line).
CRLF == "\r\n"

SP == " "

RECURSIVE SplitAll(_, _)
\* str.split(sep): the parts of s between the occurrences of sep.
SplitAll(s, sep) ==
    LET k == IndexOf(s, sep, 1)
    IN  IF k = 0 THEN <<s>>
        ELSE <<SubSeq(s, 1, k - 1)>> \o SplitAll(Drop(s, k), sep)

\* header.split(": ")[1] exists: the header line is one token with ": ".
HeaderOk(header) == header \in {<<"Host: localhost">>, <<"Accept: */*">>}

\* "\r\n\r\n" in request
HasBlankLine(request) ==
    \E k \in 1..(Len(request) - 1) : request[k] = CRLF /\ request[k + 1] = CRLF

RECURSIVE ParseHeaders(_)
\* The header loop of HttpServerProtocol._parse_request: TRUE when it ends,
\* FALSE when header.split(": ")[1] raises IndexError.
ParseHeaders(request) ==
    IF ~HasBlankLine(request) THEN TRUE
    ELSE LET k == IndexOf(request, CRLF, 1)
         IN  IF ~HeaderOk(SubSeq(request, 1, k - 1)) THEN FALSE
             ELSE ParseHeaders(Drop(request, k))

\* HttpServerProtocol._parse_request(data): command and path, or the
\* exception it raises.
ParseRequest(data) ==
    LET k == IndexOf(data, CRLF, 1)
        start_line == SplitAll(SubSeq(data, 1, k - 1), SP)
    IN  IF k = 0 THEN [ok |-> FALSE, exc |-> "ValueError"]
        ELSE IF Len(start_line) < 2 THEN [ok |-> FALSE, exc |-> "IndexError"]
        ELSE IF ~ParseHeaders(Drop(data, k)) THEN [ok |-> FALSE, exc |-> "IndexError"]
        ELSE [ok |-> TRUE, command |-> start_line[1], path |-> start_line[2]]

RECURSIVE ReadHeaders(_, _, _)
\* The header loop of TestHTTPHandler._parse_request over the lines from
\* line k on: "ok" when a blank line or the end of the stream ends it,
\* "IndexError" when a header has no ": ", "blocked" when readline waits for
\* bytes the peer has not sent.
ReadHeaders(lines, k, eof) ==
    IF k = Len(lines)
    THEN IF ~eof THEN "blocked"
         ELSE IF lines[k] = <<>> THEN "ok"
         ELSE IF HeaderOk(lines[k]) THEN "ok" ELSE "IndexError"
    ELSE IF lines[k] = <<>> THEN "ok"
    ELSE IF ~HeaderOk(lines[k]) THEN "IndexError"
    ELSE ReadHeaders(lines, k + 1, eof)

\* TestHTTPHandler._parse_request over the bytes of the stream, eof telling
\* whether the peer has shut its end: command and path, the exception, or
\* blocked in readline.
ReadRequest(data, eof) ==
    LET lines == SplitAll(data, CRLF)
        requestline == SplitAll(lines[1], SP)
        headers == IF Len(lines) = 1 THEN "ok" ELSE ReadHeaders(lines, 2, eof)
    IN  IF Len(lines) = 1 /\ ~eof THEN [ok |-> FALSE, exc |-> "blocked"]
        ELSE IF Len(requestline) < 2 THEN [ok |-> FALSE, exc |-> "IndexError"]
        ELSE IF headers # "ok" THEN [ok |-> FALSE, exc |-> headers]
        ELSE [ok |-> TRUE, command |-> requestline[1], path |-> requestline[2]]

\* self.path.lstrip("/") for the paths of the model, relative to the working
\* directory ("" is the working directory itself).
RelPath(path) ==
    IF path = <<>> \/ path = <<"/">> THEN ""
    ELSE IF path = <<"/index.html">> THEN "index.html"
    ELSE IF path = <<"/sub">> THEN "sub"
    ELSE IF path = <<"/sub/index.html">> THEN "sub/index.html"
    ELSE "missing"

\* A file system is the set of the entries that exist under the working
\* directory: the files "index.html" and "sub/index.html", the directory "sub".
IsDir(fs, p) == p = "" \/ (p = "sub" /\ "sub" \in fs)

Exists(fs, p) == p = "" \/ p \in fs

\* _validate_path: the path served, or "" when none exists.
ValidatePath(fs, path) ==
    LET p == RelPath(path)
        q == IF IsDir(fs, p)
             THEN (IF p = "" THEN "index.html" ELSE p \o "/index.html")
             ELSE p
    IN  IF Exists(fs, q) THEN q ELSE ""

\* os.path.getsize / Path.stat().st_size of the files of the model.
FileSize(p) == IF p = "index.html" THEN 5 ELSE 7

\* The content of the file.
FileBody(p) == "<" \o p \o ">"

\* HTTPStatus(status_code).phrase
Phrase(status_code) ==
    CASE status_code = 200 -> "OK"
      [] status_code = 403 -> "Forbidden"
      [] status_code = 404 -> "Not Found"
      [] status_code = 405 -> "Method Not Allowed"

\* self._write_response_line(status_code) of HttpServerProtocol.
ResponseLine(status_code) ==
    "HTTP/1.1 " \o ToString(status_code) \o " " \o Phrase(status_code) \o "\r\n"

\* self._write_response_line(status_code) of TestHTTPHandler: no line end.
ResponseLineSync(status_code) ==
    "HTTP/1.1 " \o ToString(status_code) \o " " \o Phrase(status_code)

\* self._write_headers(**kwargs) of HttpServerProtocol, length the
\* Content-Length given or -1: the two writes.
WriteHeaders(length) ==
    << "Content-Type: text/html\r\nContent-Length: "
           \o (IF length < 0 THEN "0" ELSE ToString(length))
           \o "\r\nConnection: close",
       "\r\n\r\n" >>

\* self._write_headers(**kwargs) of TestHTTPHandler, whose default headers
\* spell "Content-Lenght".
WriteHeadersSync(length) ==
    << "Content-Type: text/html\r\nContent-Lenght: 0\r\nConnection: close"
           \o (IF length < 0 THEN "" ELSE "\r\nContent-Length: " \o ToString(length)),
       "\r\n\r\n" >>

\* HttpServerProtocol.data_received after _parse_request: the writes.
HttpRespond(fs, command, path) ==
    LET file == ValidatePath(fs, path)
        head == <<ResponseLine(200)>> \o WriteHeaders(FileSize(file))
    IN  IF file = "" THEN <<ResponseLine(404)>> \o WriteHeaders(-1)
        ELSE IF command = <<"POST">> THEN <<ResponseLine(403)>> \o WriteHeaders(-1)
        ELSE IF command \notin {<<"GET">>, <<"HEAD">>}
        THEN <<ResponseLine(405)>> \o WriteHeaders(-1)
        ELSE IF command = <<"HEAD">> THEN head
        ELSE head \o <<FileBody(file)>>

\* TestHTTPHandler.handle after _parse_request: the writes.
handle(fs, command, path) ==
    LET file == ValidatePath(fs, path)
        head == <<ResponseLineSync(200)>> \o WriteHeadersSync(FileSize(file))
    IN  IF file = "" THEN <<ResponseLineSync(404)>> \o WriteHeadersSync(-1)
        ELSE IF command = <<"POST">> THEN <<ResponseLineSync(403)>> \o WriteHeadersSync(-1)
        ELSE IF command \notin {<<"GET">>, <<"HEAD">>}
        THEN <<ResponseLineSync(405)>> \o WriteHeadersSync(-1)
        ELSE IF command = <<"HEAD">> THEN head
        ELSE head \o <<FileBody(file)>>

\* The request line, header lines and blank line of a request.
HttpRequest(command, path, headers) ==
    <<command, SP, path, SP, "HTTP/1.1", CRLF>> \o headers \o <<CRLF>>

Methods == {"GET", "HEAD", "POST", "PUT", "DELETE"}

Paths == {"/", "/index.html", "/sub", "/missing"}

\* The requests of the model: every method on every path without and with a
\* header, a request whose header has no ": ", a request line without a
\* path, and a request the peer has not finished.
HttpRequests ==
    {HttpRequest(m, p, h) : m \in Methods, p \in Paths,
                            h \in {<<>>, <<"Host: localhost", CRLF>>}}
    \cup { HttpRequest("GET", "/", <<"X-Bad", CRLF>>),
           <<"GET", CRLF, CRLF>>,
           <<"GET", SP, "/", SP, "HTTP/1.1", CRLF, "Host: localhost">> }

\* The file systems of the model.
FileSystems ==
    { {}, {"index.html"}, {"sub"}, {"sub", "sub/index.html"},
      {"index.html", "sub", "sub/index.html"} }

\* One HTTP connection: which server accepts it ("sync": TestTCPServer with
\* TestHTTPHandler, "async": HttpServerProtocol), the files, the request of
\* the peer, the bytes it sent that the server has not read, whether it shut
\* its sending end, what the server wrote, and the exception that ended the
\* handler ("" for none).
InitHttp ==
    /\ InitConns(<<>>)
    /\ FUNCTIONS = Registered
    /\ registrations = Decorated
    /\ \E server \in {"sync", "async"}, fs \in FileSystems, request \in HttpRequests :
          http = [pc |-> "idle", server |-> server, fs |-> fs, request |-> request,
                  inflight |-> <<>>, eof |-> FALSE, command |-> <<>>, path |-> <<>>,
                  out |-> <<>>, exc |-> ""]

rpcVars ==
    <<FUNCTIONS, plan, peer, c2s, s2c, sconn, stx, buffer, stream, tasks,
      ready, workq, running, client, registrations>>

\* The peer connects and sends its request.
HttpPeerConnect ==
    /\ http.pc = "idle"
    /\ http' = [http EXCEPT !.pc = "connected", !.inflight = http.request]
    /\ UNCHANGED rpcVars

\* The peer shuts down its sending end.
HttpPeerShutdown ==
    /\ http.pc \in {"connected", "open"}
    /\ ~http.eof
    /\ http' = [http EXCEPT !.eof = TRUE]
    /\ UNCHANGED rpcVars

\* HttpServerProtocol.connection_made
http_connection_made ==
    /\ http.pc = "connected"
    /\ http.server = "async"
    /\ http' = [http EXCEPT !.pc = "open"]
    /\ UNCHANGED rpcVars

\* HttpServerProtocol.data_received with some of the bytes that arrived: an
\* exception of _parse_request leaves it and the transport aborts the
\* connection; else it writes the response and closes the transport.
http_data_received ==
    /\ http.pc = "open"
    /\ \E data \in Prefixes(http.inflight) :
        LET text == decode(data)
            req == ParseRequest(text.text)
        IN  http' =
              IF ~text.ok
              THEN [http EXCEPT !.pc = "aborted", !.exc = "UnicodeDecodeError",
                                !.inflight = Drop(@, Len(data))]
              ELSE IF ~req.ok
              THEN [http EXCEPT !.pc = "aborted", !.exc = req.exc,
                                !.inflight = Drop(@, Len(data))]
              ELSE [http EXCEPT !.pc = "closed", !.inflight = Drop(@, Len(data)),
                                !.command = req.command, !.path = req.path,
                                !.out = HttpRespond(http.fs, req.command, req.path)]
    /\ UNCHANGED rpcVars

\* TestTCPServer.serve_forever: accept, then TestHTTPHandler(...) reads the
\* request from the stream and handles it, and the connection is closed; an
\* exception of _parse_request leaves serve_forever.
serve_forever ==
    /\ http.pc = "connected"
    /\ http.server = "sync"
    /\ LET req == ReadRequest(http.inflight, http.eof)
       IN  /\ IF req.ok THEN TRUE ELSE req.exc # "blocked"
           /\ http' =
                IF ~req.ok
                THEN [http EXCEPT !.pc = "crashed", !.exc = req.exc]
                ELSE [http EXCEPT !.pc = "closed",
                                  !.command = req.command, !.path = req.path,
                                  !.out = handle(http.fs, req.command, req.path)]
    /\ UNCHANGED rpcVars

NextHttp ==
    \/ HttpPeerConnect
    \/ HttpPeerShutdown
    \/ http_connection_made
    \/ http_data_received
    \/ serve_forever

SpecHttp == InitHttp /\ [][NextHttp]_vars

\* ------------------------------------------------------------ specification
Next ==
    \/ \E c \in Conns : PeerConnect(c)
    \/ \E c \in Conns : PeerClose(c)
    \/ \E c \in Conns : connection_made(c)
    \/ \E c \in Conns : data_received(c)
    \/ \E c \in Conns : eof_received(c)
    \/ RunTask
    \/ ThreadStart
    \/ \E c \in Conns : \E i \in 1..Len(tasks[c]) : ThreadFinish(c, i)
    \/ \E c \in Conns : write_ready(c)
    \/ \E c \in Conns : ClientConnect(c)
    \/ \E c \in Conns : client_write_ready(c)
    \/ \E c \in Conns : client_data_received(c)
    \/ \E c \in Conns : client_connection_lost(c)
    \/ \E c \in Conns : run_rpc_client_return(c)

Spec == Init /\ [][Next]_vars

\* One connection more than the thread pool has workers, each peer a raw
\* socket that sends one request for the blocking sleep and stays connected;
\* the server is watched while the sleeps run, before any of them returns.
InitSleep == InitPeers([c \in 1..(MaxWorkers + 1) |-> Raw(<<ReqSleep, NL>>)])

NextSleep ==
    \/ \E c \in Conns : PeerConnect(c)
    \/ \E c \in Conns : connection_made(c)
    \/ \E c \in Conns : data_received(c)
    \/ RunTask
    \/ ThreadStart

SpecSleep == InitSleep /\ [][NextSleep]_vars

\* A process that starts with an empty registry, calls register() up to
\* MaxRegistrations times with any of the names and callables, and then
\* serves one raw peer: a valid request, a request whose invocation fails, a
\* malformed one, one for a name that may not be registered, two pipelined.
RegistryNames == {"add", "upper"}

Callables == {"add", "upper", "sleep"}

RegistryPlans ==
    { Raw(<<ReqAdd, NL>>),
      Raw(<<ReqAddArity, NL>>),
      Raw(<<ReqGarbage, NL>>),
      Raw(<<ReqUnknown, NL>>),
      Raw(<<ReqUpper, NL, ReqAdd, NL>>) }

InitRegistry ==
    /\ \E p \in RegistryPlans : InitConns(<<p>>)
    /\ FUNCTIONS = <<>>
    /\ registrations = <<>>
    /\ http = NoHttp

\* register(name)(fn), before the listener accepts a connection.
Register(name, fn) ==
    /\ Len(registrations) < MaxRegistrations
    /\ \A c \in Conns : peer[c] = "idle"
    /\ FUNCTIONS' = register(FUNCTIONS, name, fn)
    /\ registrations' = Append(registrations, <<name, fn>>)
    /\ UNCHANGED <<http, plan, peer, c2s, s2c, sconn, stx, buffer, stream, tasks,
                   ready, workq, running, client>>

NextRegistry ==
    \/ \E name \in RegistryNames : \E fn \in Callables : Register(name, fn)
    \/ \E c \in Conns : PeerConnect(c)
    \/ \E c \in Conns : PeerClose(c)
    \/ \E c \in Conns : connection_made(c)
    \/ \E c \in Conns : data_received(c)
    \/ \E c \in Conns : eof_received(c)
    \/ RunTask
    \/ ThreadStart
    \/ \E c \in Conns : \E i \in 1..Len(tasks[c]) : ThreadFinish(c, i)
    \/ \E c \in Conns : write_ready(c)

SpecRegistry == InitRegistry /\ [][NextRegistry]_vars

\* ------------------------------------------------- vocabulary of the claims
RECURSIVE Count(_, _)
\* How often x occurs in s.
Count(s, x) ==
    IF s = <<>> THEN 0
    ELSE (IF Head(s) = x THEN 1 ELSE 0) + Count(Tail(s), x)

\* The bytes the peer of connection c sends in all.
PlanBytes(c) ==
    IF plan[c].kind = "raw" THEN plan[c].bytes
    ELSE <<DumpsRequest(plan[c].request), NL>>

\* The tasks of connection c that have left the handler.
Finished(c) == {i \in 1..Len(tasks[c]) : tasks[c][i].pc \in {"done", "failed"}}

\* The response frames the peer of connection c has been sent.
Observed(c) == Count(s2c[c], NL)

\* The peer of c sends one frame and nothing else: a well-formed request
\* that names a registered function with arguments it accepts.
LoneValidRequest(c) ==
    LET text == decode(PlanBytes(c))
        cut == Extract(text.text)
        h == HandleLine(Registered, cut.lines[1])
    IN  /\ text.ok
        /\ Len(cut.lines) = 1
        /\ Count(PlanBytes(c), NL) = 1
        /\ cut.rest = <<>>
        /\ h.kind = "call"
        /\ Invoke(h.fn, h.args, h.kwargs).kind = "return"

\* The response frame owed to the lone valid request of c.
ExpectedFrame(c) ==
    LET h == HandleLine(Registered, Extract(decode(PlanBytes(c)).text).lines[1])
    IN  <<json_dumps([result |-> Invoke(h.fn, h.args, h.kwargs).value]), NL>>

\* Nothing is left for the server to do on connection c: it reads no more
\* (it has read every byte of the peer, or the transport is closing), no
\* task is unfinished and the write buffer is flushed.
Quiet(c) ==
    /\ sconn[c] = "open"
    /\ stx[c].closing \/ stream[c] = PlanBytes(c)
    /\ Finished(c) = 1..Len(tasks[c])
    /\ stx[c].wbuf = <<>>

\* -------------------------------------------------------------------- C1
\* C1: on one connection, however many request frames are pipelined and
\* however their dispatches interleave, the peer is sent at most one
\* response frame.
C1_AtMostOneResponseObserved == \A c \in Conns : Observed(c) <= 1

\* -------------------------------------------------------------------- C2
\* C2: a well-formed request for a registered function with compatible
\* arguments, sent alone on a connection whose peer stays connected, is
\* answered: once the server has nothing left to do on the connection, the
\* peer has been sent exactly the one frame with the function's result and
\* the transport is closing.
C2_LoneValidRequestAnswered ==
    \A c \in Conns :
        (LoneValidRequest(c) /\ Quiet(c) /\ (plan[c].kind = "raw" => peer[c] = "connected"))
            => (s2c[c] = ExpectedFrame(c) /\ stx[c].closing)

\* The same for the requests whose bytes are all ASCII.
C2_LoneAsciiRequestAnswered ==
    \A c \in Conns :
        (/\ LoneValidRequest(c) /\ ~Contains(PlanBytes(c), "C3")
         /\ Quiet(c) /\ (plan[c].kind = "raw" => peer[c] = "connected"))
            => (s2c[c] = ExpectedFrame(c) /\ stx[c].closing)

\* -------------------------------------------------------------------- C3
\* C3: blocking calls of different connections do not serialize: a call that
\* was submitted never has to wait for another connection's call to finish
\* before it starts, so whenever a call waits in the queue a worker is free.
C3_BlockingCallsNeverWait == workq # <<>> => Cardinality(running) < MaxWorkers

\* -------------------------------------------------------------------- C4
\* The call that the line asks for raises.
RaisesOnInvoke(line) ==
    LET h == HandleLine(Registered, line)
    IN  h.kind = "call" /\ Invoke(h.fn, h.args, h.kwargs).kind = "raise"

OnlyError(response) == DOMAIN response = {"error"}

OnlyResult(response) == DOMAIN response = {"result"}

\* C4: an exception raised while a registered function is invoked never
\* leaves the handler of the frame (no task ends by an exception), and the
\* handler of such a frame ends having written an error response, once, and
\* having closed the transport.
C4_InvocationErrorsAnswered ==
    \A c \in Conns : \A i \in 1..Len(tasks[c]) :
        LET t == tasks[c][i]
        IN  /\ t.pc # "failed"
            /\ (t.outcome.kind = "raise" /\ <<c, i>> \notin Range(ready))
                  => (t.pc = "done" /\ OnlyError(t.response) /\ t.wrote = 1
                      /\ stx[c].closing)
            /\ (RaisesOnInvoke(t.line) /\ t.pc = "done") => OnlyError(t.response)

\* A frame whose call raised has been answered.
C4_Witness ==
    \E c \in Conns : \E i \in 1..Len(tasks[c]) :
        /\ tasks[c][i].outcome.kind = "raise"
        /\ tasks[c][i].pc = "done"
        /\ tasks[c][i].wrote = 1

\* -------------------------------------------------------------------- C5
\* The line is no JSON, or no JSON object, or an object without "func_name".
Malformed(line) ==
    LET p == json_loads(line)
    IN  IF ~p.ok THEN TRUE
        ELSE IF ~IsObj(p.value) THEN TRUE
        ELSE "func_name" \notin DOMAIN p.value.obj

\* C5: the handler of a malformed frame submits and invokes no function and,
\* when it is through, has produced an error response.
C5_MalformedFrameGetsError ==
    \A c \in Conns : \A i \in 1..Len(tasks[c]) :
        LET t == tasks[c][i]
        IN  Malformed(t.line) =>
                /\ t.calls = 0 /\ t.call = NoCall /\ <<c, i>> \notin Range(workq)
                /\ t.pc \in {"created", "done"}
                /\ t.pc = "done" => OnlyError(t.response)

\* Handlers of malformed frames are through: this state has one of a frame
\* without "func_name", other states one of a frame that is no JSON.
C5_Witness ==
    \E c \in Conns : \E i \in 1..Len(tasks[c]) :
        /\ Malformed(tasks[c][i].line)
        /\ json_loads(tasks[c][i].line).ok
        /\ IsObj(json_loads(tasks[c][i].line).value)
        /\ tasks[c][i].pc = "done"

\* -------------------------------------------------------------------- C6
\* The line is a JSON object whose "func_name" is no key of the registry.
Unregistered(line) ==
    LET p == json_loads(line)
    IN  IF ~p.ok THEN FALSE
        ELSE IF ~IsObj(p.value) THEN FALSE
        ELSE LET f == Get(p.value.obj, "func_name", JNull)
             IN  IF IsStr(f) THEN Join(f.str) \notin DOMAIN FUNCTIONS ELSE TRUE

\* C6: the response to a request for an unregistered function has "error"
\* and no "result", the frame written for it is that error, and no function
\* is invoked for it.
C6_UnknownFunctionGetsError ==
    \A c \in Conns : \A i \in 1..Len(tasks[c]) :
        LET t == tasks[c][i]
        IN  Unregistered(t.line) =>
                /\ t.calls = 0 /\ t.call = NoCall
                /\ t.pc \in {"created", "done"}
                /\ t.pc = "done" =>
                      /\ "error" \in DOMAIN t.response
                      /\ "result" \notin DOMAIN t.response
                      /\ t.wrote = 1

\* A request that names the unregistered "nope" has been answered.
C6_Witness ==
    \E c \in Conns : \E i \in 1..Len(tasks[c]) :
        /\ tasks[c][i].line = <<ReqUnknown>>
        /\ tasks[c][i].pc = "done"

\* -------------------------------------------------------------------- C7
\* The frames among the bytes s: its symbols other than "\n".
FramesIn(s) == {s[k] : k \in {j \in 1..Len(s) : s[j] # NL}}

\* C7: every response a handler has built has exactly one of the keys
\* "result" and "error", and every frame handed to the transport is the JSON
\* text of such a response.
C7_ExactlyOneOfResultOrError ==
    \A c \in Conns :
        /\ \A i \in 1..Len(tasks[c]) :
              tasks[c][i].pc = "done" =>
                  (OnlyResult(tasks[c][i].response) \/ OnlyError(tasks[c][i].response))
        /\ \A f \in FramesIn(s2c[c] \o stx[c].wbuf) :
              \E i \in 1..Len(tasks[c]) :
                  /\ tasks[c][i].pc = "done"
                  /\ f \in { "{\"result\": " \o JsonText(tasks[c][i].response[k]) \o "}" :
                               k \in DOMAIN tasks[c][i].response \cap {"result"} }
                        \cup { "{\"error\": \"" \o tasks[c][i].response[k] \o "\"}" :
                                 k \in DOMAIN tasks[c][i].response \cap {"error"} }

\* On one connection a success and an error have both been answered.
C7_Witness ==
    \E c \in Conns : \E i, j \in 1..Len(tasks[c]) :
        /\ tasks[c][i].pc = "done" /\ OnlyError(tasks[c][i].response)
        /\ tasks[c][j].pc = "done" /\ OnlyResult(tasks[c][j].response)

\* -------------------------------------------------------------------- C8
\* A line without the whitespace at its ends.
Trim(seg) ==
    LET black == {k \in 1..Len(seg) : seg[k] # WS}
    IN  IF black = {} THEN <<>>
        ELSE SubSeq(seg, CHOOSE k \in black : \A j \in black : k <= j,
                         CHOOSE k \in black : \A j \in black : k >= j)

RECURSIVE LinesFrom(_, _, _)
\* The trimmed non-empty lines of text that end at a "\n" at or after
\* position i, the first of them starting at position start.
LinesFrom(text, start, i) ==
    IF i > Len(text) THEN <<>>
    ELSE IF text[i] # NL THEN LinesFrom(text, start, i + 1)
    ELSE LET line == Trim(SubSeq(text, start, i - 1))
         IN  (IF line = <<>> THEN <<>> ELSE <<line>>)
                 \o LinesFrom(text, i + 1, i + 1)

\* The frames of a text: its complete, trimmed, non-empty lines in order.
NonBlankLines(text) == LinesFrom(text, 1, 1)

\* C8: on a connection whose bytes all decoded, the handlers started are,
\* one for one and in order, the non-empty lines received (an empty line
\* starts none); every handler is scheduled at most once at a time, writes
\* at most once, and has built one response and written once when it is
\* through.
C8_OneResponsePerFrame ==
    \A c \in Conns :
        /\ stx[c].exc = "" =>
              [i \in 1..Len(tasks[c]) |-> tasks[c][i].line]
                  = NonBlankLines(decode(stream[c]).text)
        /\ \A i \in 1..Len(tasks[c]) :
              LET t == tasks[c][i]
              IN  /\ t.line # <<>>
                  /\ Count(ready, <<c, i>>) <= 1
                  /\ t.pc \in {"created", "awaiting", "done"}
                  /\ t.wrote = (IF t.pc = "done" THEN 1 ELSE 0)
                  /\ (t.pc = "done") = (t.response # <<>>)

\* A connection that received an empty line and a request has answered the
\* request and started nothing for the empty line.
C8_Witness ==
    \E c \in Conns :
        /\ Count(stream[c], NL) = 2
        /\ Len(tasks[c]) = 1
        /\ tasks[c][1].pc = "done"
        /\ tasks[c][1].wrote = 1

\* -------------------------------------------------------------------- C9
RECURSIVE encode(_)
\* str.encode(): the UTF-8 bytes of a text.
encode(text) ==
    IF text = <<>> THEN <<>>
    ELSE (IF Head(text) = "é" THEN <<"C3", "A9">> ELSE <<Head(text)>>)
             \o encode(Tail(text))

RECURSIVE LastIndexOf(_, _)
\* The greatest index at which x occurs in s, or 0.
LastIndexOf(s, x) ==
    IF s = <<>> THEN 0
    ELSE IF s[Len(s)] = x THEN Len(s)
    ELSE LastIndexOf(SubSeq(s, 1, Len(s) - 1), x)

\* C9: the decoder handles partial and multiple frames: the bytes received
\* after the last "\n" are retained in the buffer and have started no
\* handler, and the lines completed so far have each started one, in order.
C9_PartialAndMultipleFrames ==
    \A c \in Conns :
        LET last == LastIndexOf(stream[c], NL)
            whole == decode(SubSeq(stream[c], 1, last))
        IN  /\ encode(buffer[c]) = Drop(stream[c], last)
            /\ whole.ok
            /\ [i \in 1..Len(tasks[c]) |-> tasks[c][i].line] = NonBlankLines(whole.text)

\* The same on the connections whose chunks all decoded.
C9_PartialAndMultipleFramesDecoded ==
    \A c \in Conns :
        LET last == LastIndexOf(stream[c], NL)
            whole == decode(SubSeq(stream[c], 1, last))
        IN  stx[c].exc = "" =>
                /\ encode(buffer[c]) = Drop(stream[c], last)
                /\ whole.ok
                /\ [i \in 1..Len(tasks[c]) |-> tasks[c][i].line]
                       = NonBlankLines(whole.text)

\* ------------------------------------------------------------------- C10
\* C10: the RPC client writes one request frame, once, when it connects, and
\* no other byte; it closes its transport as soon as it has decoded a
\* response; on_con_lost is resolved once, when the connection is lost, and
\* then run_rpc_client can return, which it does only after the loss.
C10_ClientOneRequestOneResponse ==
    \A c \in Conns :
        plan[c].kind = "rpc" =>
            LET cl == client[c]
            IN  /\ cl.writes = (IF peer[c] = "idle" THEN 0 ELSE 1)
                /\ stream[c] \o c2s[c] \o cl.tx.wbuf
                       = (IF peer[c] = "idle" THEN <<>> ELSE PlanBytes(c))
                /\ Count(PlanBytes(c), NL) = 1
                /\ cl.seen # <<>> => cl.tx.closing
                /\ cl.nset = (IF peer[c] = "closed" THEN 1 ELSE 0)
                /\ cl.tx.connLost => cl.tx.closing
                /\ (cl.pc = "init") = (peer[c] = "idle")
                /\ cl.pc = "done" => peer[c] = "closed"
                /\ (cl.nset = 1 /\ cl.pc = "awaiting") => ENABLED run_rpc_client_return(c)

\* A client has returned from run_rpc_client after one response, on a
\* connection the server had closed first.
C10_Witness ==
    \E c \in Conns :
        /\ plan[c].kind = "rpc"
        /\ client[c].pc = "done"
        /\ Len(client[c].seen) = 1
        /\ client[c].nset = 1
        /\ stx[c].connLost

\* ------------------------------------------------------------------- C11
\* The status of the response written: the code of its status line.
StatusWritten ==
    CHOOSE code \in {0, 200, 403, 404, 405} :
        IF code = 0
        THEN http.out = <<>> \/ \A k \in {200, 403, 404, 405} :
                 http.out[1] \notin {"HTTP/1.1 " \o ToString(k) \o " " \o Phrase(k),
                                     "HTTP/1.1 " \o ToString(k) \o " " \o Phrase(k) \o "\r\n"}
        ELSE http.out # <<>> /\
             http.out[1] \in {"HTTP/1.1 " \o ToString(code) \o " " \o Phrase(code),
                              "HTTP/1.1 " \o ToString(code) \o " " \o Phrase(code) \o "\r\n"}

\* C11: the response of the static-file responder to a POST has status 403
\* whatever the path, to a method other than GET, HEAD and POST status 405,
\* and to a GET for a path that resolves to no existing file status 404.
C11_StatusByMethod ==
    http.pc = "closed" =>
        /\ http.command = <<"POST">> => StatusWritten = 403
        /\ http.command \notin {<<"GET">>, <<"HEAD">>, <<"POST">>} => StatusWritten = 405
        /\ (http.command = <<"GET">> /\ ValidatePath(http.fs, http.path) = "")
              => StatusWritten = 404

\* The same for the requests whose path resolves to an existing file, and
\* status 404 for every method when it resolves to none.
C11_StatusByPathThenMethod ==
    http.pc = "closed" =>
        IF ValidatePath(http.fs, http.path) = "" THEN StatusWritten = 404
        ELSE /\ http.command = <<"POST">> => StatusWritten = 403
             /\ http.command \notin {<<"GET">>, <<"HEAD">>, <<"POST">>}
                   => StatusWritten = 405
             /\ http.command \in {<<"GET">>, <<"HEAD">>} => StatusWritten = 200

\* ------------------------------------------------------------------- C12
\* The server knows that the peer of c has closed: the peer's socket is
\* closed and connection_lost has been called on the server's side.
PeerGone(c) == peer[c] = "closed" /\ stx[c].connLost

\* C12: once the peer has closed the connection and the server has lost it,
\* no handler of the connection calls transport.write any more, also not
\* one whose call was still running.
C12_NoWriteAfterPeerClose ==
    [][\A c \in Conns : PeerGone(c) =>
          \A i \in 1..Len(tasks[c]) : tasks'[c][i].wrote = tasks[c][i].wrote]_vars

\* ------------------------------------------------------------------- C13
\* C13: the server does not close a connection by itself before a handler
\* of the connection has written its response: while the peer stays
\* connected and no handler has written, the transport is not closing.
C13_NoCloseBeforeResponse ==
    \A c \in Conns :
        (stx[c].closing /\ peer[c] = "connected")
            => \E i \in 1..Len(tasks[c]) : tasks[c][i].wrote = 1

\* The same on the connections whose chunks all decoded.
C13_NoCloseBeforeResponseDecoded ==
    \A c \in Conns :
        (stx[c].closing /\ peer[c] = "connected" /\ stx[c].exc = "")
            => \E i \in 1..Len(tasks[c]) : tasks[c][i].wrote = 1

\* ------------------------------------------------------------------- C14
\* The call of the handler has been submitted to the executor.
Submitted(t) == t.call # NoCall

\* C14: the frames of a connection are dispatched in arrival order: the
\* handlers are created in the order of the frames received, a handler has
\* started only if those of all earlier frames have, a call waits in the
\* executor's queue behind the calls of earlier frames, and no worker has
\* taken it while the call of an earlier frame still waits.
C14_DispatchInArrivalOrder ==
    \A c \in Conns :
        /\ stx[c].exc = "" =>
              [i \in 1..Len(tasks[c]) |-> tasks[c][i].line]
                  = NonBlankLines(decode(SubSeq(stream[c], 1, LastIndexOf(stream[c], NL))).text)
        /\ \A i, j \in 1..Len(tasks[c]) :
              i < j =>
                 /\ tasks[c][j].pc # "created" => tasks[c][i].pc # "created"
                 /\ Submitted(tasks[c][j]) =>
                       (HandleLine(FUNCTIONS, tasks[c][i].line).kind = "call"
                            => Submitted(tasks[c][i]))
                 /\ (<<c, i>> \in Range(ready) /\ <<c, j>> \in Range(ready)
                     /\ tasks[c][i].pc = "created" /\ tasks[c][j].pc = "created")
                       => IndexOf(ready, <<c, i>>, 1) < IndexOf(ready, <<c, j>>, 1)
                 /\ <<c, i>> \in Range(workq) =>
                       /\ tasks[c][j].calls = 0
                       /\ <<c, j>> \in Range(workq)
                             => IndexOf(workq, <<c, i>>, 1) < IndexOf(workq, <<c, j>>, 1)

\* The calls of two frames of one connection wait in the executor's queue,
\* the earlier frame's first.
C14_Witness ==
    \E c \in Conns :
        /\ Len(tasks[c]) = 2
        /\ tasks[c][1].line = <<ReqAdd>> /\ tasks[c][2].line = <<ReqSleep>>
        /\ workq = <<<<c, 1>>, <<c, 2>>>>

\* ------------------------------------------------------------------- C15
\* Handler i of connection c reaches its write step in this step.
Writes(c, i) == tasks'[c][i].wrote > tasks[c][i].wrote

C15_FirstFrameWins ==
    \E c \in Conns :
        /\ Len(tasks[c]) = 2
        /\ \A i \in 1..2 : tasks[c][i].pc = "done" /\ tasks[c][i].calls = 1
        /\ stx[c].wbuf = <<>>
        /\ s2c[c] = <<json_dumps(tasks[c][1].response), NL>>
        /\ tasks[c][1].response # tasks[c][2].response

ServerSide(c) == <<buffer[c], stream[c], tasks[c], s2c[c], stx[c]>>

\* Something happens on connection d: its peer connects, sends or closes,
\* or the server receives, decodes, answers or closes on it.
Touched(d) ==
    \/ <<peer[d], c2s[d], sconn[d]>>' # <<peer[d], c2s[d], sconn[d]>>
    \/ ServerSide(d)' # ServerSide(d)

\* C16: connections are isolated: no step in which something happens on one
\* connection (bytes received, a malformed frame answered, the peer gone)
\* changes the buffer, the frames decoded or the bytes sent of another; the
\* frames decoded on a connection are those of its own bytes; and a client
\* that sends one valid request is sent exactly the response to it, whatever
\* the other connections do.
C16_ConnectionsIsolated ==
    /\ [][\A c, d \in Conns :
             (c # d /\ Touched(d)) => ServerSide(c)' = ServerSide(c)]_vars
    /\ [](\A c \in Conns :
             /\ stx[c].exc = "" =>
                   /\ [i \in 1..Len(tasks[c]) |-> tasks[c][i].line]
                          = NonBlankLines(decode(SubSeq(stream[c], 1,
                                LastIndexOf(stream[c], NL))).text)
                   /\ encode(buffer[c]) = Drop(stream[c], LastIndexOf(stream[c], NL))
             /\ plan[c].kind = "rpc" =>
                   /\ s2c[c] \in {<<>>, ExpectedFrame(c)}
                   /\ Quiet(c) => s2c[c] = ExpectedFrame(c))

\* A client was sent the response to its request although another
\* connection was aborted, or answered with an error, or left by its peer
\* with its request unanswered.
C16_Witness ==
    \E c, d \in Conns :
        /\ c # d
        /\ plan[c].kind = "rpc" /\ s2c[c] = ExpectedFrame(c)
        /\ plan[d].kind = "raw"
        /\ \/ stx[d].exc # ""
           \/ \E i \in 1..Len(tasks[d]) :
                 tasks[d][i].pc = "done" /\ OnlyError(tasks[d][i].response)
           \/ peer[d] = "closed" /\ s2c[d] = <<>> /\ stream[d] # <<>>


\* ------------------------------------------------------------------- C17
\* The registry a log of register() calls should leave: every name of the
\* log, with the callable of its latest entry.
LastWins(log) ==
    [name \in {log[k][1] : k \in 1..Len(log)} |->
        log[CHOOSE k \in 1..Len(log) :
                /\ log[k][1] = name
                /\ \A j \in 1..Len(log) : log[j][1] = name => j <= k][2]]

\* C17: the registry is read-only during serving: no step in which the
\* server receives, dispatches, invokes, answers or closes changes
\* FUNCTIONS; it changes only in a call of register(), and it maps every
\* registered name to the callable of the name's latest registration.
C17_RegistryReadOnly ==
    /\ [][(\E c \in Conns : Touched(c)) \/ <<ready, workq, running>>' # <<ready, workq, running>>
             => FUNCTIONS' = FUNCTIONS]_vars
    /\ [][FUNCTIONS' # FUNCTIONS => Len(registrations') = Len(registrations) + 1]_vars
    /\ [](FUNCTIONS = LastWins(registrations))

\* A name was registered twice with different callables, and a request for
\* it has been served by invoking the later one.
C17_Witness ==
    \E j \in 1..Len(registrations) : \E k \in 1..(j - 1) :
        /\ registrations[k][1] = registrations[j][1]
        /\ registrations[k][2] # registrations[j][2]
        /\ FUNCTIONS[registrations[j][1]] = registrations[j][2]
        /\ \E c \in Conns : \E i \in 1..Len(tasks[c]) :
              /\ tasks[c][i].pc = "done"
              /\ tasks[c][i].calls = 1
              /\ tasks[c][i].call.fn = registrations[j][2]
              /\ tasks[c][i].line \in {<<ReqAdd>>, <<ReqUpper>>, <<ReqAddArity>>}
              /\ HandleLine(FUNCTIONS, tasks[c][i].line).fn = registrations[j][2]
              /\ HandleLine(LastWins(SubSeq(registrations, 1, k)), tasks[c][i].line).kind = "call"
              /\ HandleLine(LastWins(SubSeq(registrations, 1, k)), tasks[c][i].line).fn
                     = registrations[k][2]


\* ------------------------------------------------------------------- C18
\* The line is a JSON object whose func_name is a registered name.
NamesRegistered(line) ==
    LET parsed == json_loads(line)
    IN  IF ~parsed.ok THEN FALSE
        ELSE IF ~IsObj(parsed.value) THEN FALSE
        ELSE LET func_name == Get(parsed.value.obj, "func_name", JNull)
             IN  IF IsStr(func_name) THEN Join(func_name.str) \in DOMAIN FUNCTIONS
                 ELSE FALSE

\* How often the function of handler i of connection c was or will be
\* called: the calls a worker has made and the submissions that wait.
Attempts(c, i) == tasks[c][i].calls + Count(workq, <<c, i>>)

\* C18: every decoded frame that names a registered function causes exactly
\* one invocation of the function: never a second one, and one when its
\* handler is through, also when its response was dropped.
C18_ExactlyOneInvocation ==
    \A c \in Conns : \A i \in 1..Len(tasks[c]) :
        NamesRegistered(tasks[c][i].line) =>
            /\ Attempts(c, i) <= 1
            /\ tasks[c][i].pc \in {"done", "failed"} => tasks[c][i].calls = 1

\* The same for the frames whose args and kwargs can be expanded into a
\* call (args an array, kwargs an object without the handler's own parameter
\* names); the function of any other frame is never invoked.
C18_ExactlyOneInvocationOfCalls ==
    \A c \in Conns : \A i \in 1..Len(tasks[c]) :
        IF HandleLine(FUNCTIONS, tasks[c][i].line).kind = "call"
        THEN /\ NamesRegistered(tasks[c][i].line)
             /\ Attempts(c, i) <= 1
             /\ tasks[c][i].pc \in {"done", "failed"} => tasks[c][i].calls = 1
             /\ tasks[c][i].outcome # NoOutcome => Attempts(c, i) = 1
        ELSE Attempts(c, i) = 0 /\ tasks[c][i].call = NoCall

\* A handler is through whose function was invoked once and whose response
\* was dropped: the connection was lost after it had sent another response.
C18_Witness ==
    \E c \in Conns : \E i \in 1..Len(tasks[c]) :
        /\ tasks[c][i].pc = "done"
        /\ tasks[c][i].calls = 1
        /\ stx[c].connLost /\ stx[c].wbuf = <<>>
        /\ Observed(c) = 1
        /\ s2c[c] # <<json_dumps(tasks[c][i].response), NL>>
        /\ peer[c] = "connected"


\* ------------------------------------------------------------------- C19
\* data_received called once on a fresh connection with the whole of bytes:
\* the lines it dispatches and the buffer it leaves (nothing of either when
\* the bytes do not decode).
InOneChunk(bytes) ==
    LET text == decode(bytes)
    IN  IF text.ok THEN Extract(text.text) ELSE [lines |-> <<>>, rest |-> <<>>]

\* C19: the frames dispatched on a connection and the partial frame left in
\* its buffer depend only on the bytes passed to data_received, not on how
\* they were cut into chunks: they are those of passing the same bytes in
\* one chunk.
C19_ChunkingIndependent ==
    \A c \in Conns :
        /\ [i \in 1..Len(tasks[c]) |-> tasks[c][i].line] = InOneChunk(stream[c]).lines
        /\ buffer[c] = InOneChunk(stream[c]).rest

\* The same on the connections whose chunks all decoded.
C19_ChunkingIndependentDecoded ==
    \A c \in Conns :
        stx[c].exc = "" =>
            /\ [i \in 1..Len(tasks[c]) |-> tasks[c][i].line] = InOneChunk(stream[c]).lines
            /\ buffer[c] = InOneChunk(stream[c]).rest


\* ------------------------------------------------------------------- C20
\* C20: whenever data_received has returned the buffer of the connection
\* holds no "\n"; the buffer changes only in a step in which data_received
\* takes bytes of the connection, never in a step of a handler or a worker;
\* and the line a handler was started with stays as it was while the
\* buffer goes on changing.
C20_BufferOwnedByDataReceived ==
    /\ [](\A c \in Conns : ~Contains(buffer[c], NL))
    /\ [][\A c \in Conns :
             /\ buffer'[c] # buffer[c] => stream'[c] # stream[c]
             /\ \A i \in 1..Len(tasks[c]) :
                   /\ Len(tasks'[c]) >= Len(tasks[c])
                   /\ tasks'[c][i].line = tasks[c][i].line]_vars

\* data_received has returned with a partial frame in the buffer after it
\* had started a handler for a complete one, and the handler has since run
\* to its end on its own line.
C20_Witness ==
    \E c \in Conns :
        /\ buffer[c] # <<>>
        /\ \E i \in 1..Len(tasks[c]) :
              /\ tasks[c][i].pc = "done"
              /\ tasks[c][i].line # buffer[c]
        /\ Contains(stream[c], NL)

====
